---- MODULE Spec2Model ----
(***************************************************************************)
(* The SSH session gateway of dawdle-server: the per-connection handler    *)
(* (src/ssh/session.rs), the container runtime adapter (src/containers.rs) *)
(* and the container engine they drive.  Every handler of one connection   *)
(* runs on that connection's event loop, one at a time; shell_request is   *)
(* split at the engine calls of Containers::attach so that two connections *)
(* can interleave there.  Beside it, the web sessions                      *)
(* (src/app/core/sessions.rs) and the chat (src/chat).                     *)
(***************************************************************************)
EXTENDS Integers, Sequences, FiniteSets, TLC

(* ------------------------------ bounds --------------------------------- *)
MaxChannels == 1      \* channels one connection opens over its life
MaxExecs    == 2      \* exec processes the engine creates
MaxData     == 2      \* data frames delivered to attached channels
MaxOut      == 1      \* output chunks the exec processes produce
MaxWeeks    == 2      \* session timeouts the clock runs through
MaxSeconds  == 1      \* seconds the clock runs past each of them
MaxSockets  == 3      \* chat websockets the server accepts
MaxMessages == 1      \* chat requests the sockets send

Sessions   == { 1, 2 }            \* the connections the server accepts
ChannelIds == 1..MaxChannels

(* --------------------------- option values ----------------------------- *)
None      == <<>>
Some(x)   == <<x>>
IsSome(o) == o # <<>>
Unwrap(o) == o[1]

(* ----------------------------- constants ------------------------------- *)
DOCKER_CONTAINER_PREFIX == "dawdle-home-"
DefaultSize == <<80, 24>>
ExecEcho    == "stty -echo"

(* ------------------------- the user directory -------------------------- *)
Names     == {"alice", "bob", "carol", "eve"}   \* usernames a client may send
Passwords == {"pw1", "pw2"}
Ed25519   == "ssh-ed25519"
Keys      == { [id |-> "k1", alg |-> Ed25519], [id |-> "k2", alg |-> Ed25519],
               [id |-> "k3", alg |-> "ssh-rsa"],
               [id |-> "k4", alg |-> Ed25519] }     \* keys a client may offer

\* utils::hash_pw: a salted hash; the digest binds the salt and the password
Digest(salt, password) == <<"argon2id", salt, password>>
hash_pw(password, salt) == [salt |-> salt, digest |-> Digest(salt, password)]

\* argon2 verify_password: recompute the digest under the stored salt
verify_password(password, hash) == Digest(hash.salt, password) = hash.digest

\* the stored users. add_public_key stores only keys that pass
\* valid_public_key; carol's record holds an ssh-rsa key stored without that
\* test, the case the algorithm test of get_user is written for
Directory ==
  [ alice |-> [ password_hash      |-> hash_pw("pw1", "s1"),
                ssh_allow_password |-> TRUE,
                public_keys        |-> << [id |-> "k1", alg |-> Ed25519] >> ],
    bob   |-> [ password_hash      |-> hash_pw("pw2", "s2"),
                ssh_allow_password |-> FALSE,
                public_keys        |-> << [id |-> "k2", alg |-> Ed25519] >> ],
    carol |-> [ password_hash      |-> hash_pw("pw2", "s3"),
                ssh_allow_password |-> TRUE,
                public_keys        |-> << [id |-> "k3", alg |-> "ssh-rsa"],
                                          [id |-> "k4", alg |-> Ed25519] >> ] ]

\* UserState::get
UserGet(username) ==
  IF username \in DOMAIN Directory THEN Some(Directory[username]) ELSE None

\* the usernames a caller may hand to the Containers adapter
Name31 == "aaaaaaaaaaaaaaaaaaaaaaaaaaaaaaa"
Name32 == "aaaaaaaaaaaaaaaaaaaaaaaaaaaaaaaa"
Usernames == { "alice", "alice-7", Name31, "", Name32, "Bob", "a_b" }

\* username.chars(): the characters of the names of the model
Spell ==
  ( "alice" :> << "a", "l", "i", "c", "e" >> ) @@
  ( "bob" :> << "b", "o", "b" >> ) @@
  ( "carol" :> << "c", "a", "r", "o", "l" >> ) @@
  ( "eve" :> << "e", "v", "e" >> ) @@
  ( "alice-7" :> << "a", "l", "i", "c", "e", "-", "7" >> ) @@
  ( Name31 :> [i \in 1..31 |-> "a"] ) @@
  ( Name32 :> [i \in 1..32 |-> "a"] ) @@
  ( "" :> << >> ) @@
  ( "Bob" :> << "B", "o", "b" >> ) @@
  ( "a_b" :> << "a", "_", "b" >> )

\* char::is_ascii_lowercase and char::is_ascii_digit
Lowercase == { "a", "b", "c", "d", "e", "f", "g", "h", "i", "j", "k", "l", "m",
               "n", "o", "p", "q", "r", "s", "t", "u", "v", "w", "x", "y", "z" }
Digits    == { "0", "1", "2", "3", "4", "5", "6", "7", "8", "9" }

\* is_valid_username with the length test off by one
is_valid_username_32(username) ==
  LET cs == Spell[username] IN
  /\ cs # << >>
  /\ Len(cs) <= 32
  /\ \A i \in 1..Len(cs) : cs[i] \in Lowercase \cup Digits \cup { "-" }

\* utils::is_valid_username
is_valid_username(username) ==
  LET cs == Spell[username] IN
  /\ cs # << >>
  /\ Len(cs) < 32
  /\ \A i \in 1..Len(cs) : cs[i] \in Lowercase \cup Digits \cup { "-" }

(* ------------------------------ state ---------------------------------- *)
VARIABLES
  alive,       \* alive[s]: the connection is up and its SshSession exists
  authed,      \* authed[s]: an auth callback answered Accept
  accepted,    \* accepted[s]: the method of that Accept, and whether the
               \* key was one of the keys of the identity cached then
  user,        \* SshSession.user: Option<SshUser>
  lookups,     \* lookups[s]: the calls of UserState::get made for connection s
  command,     \* SshSession.command: Option<String>
  term,        \* SshSession.term: String
  channels,    \* SshSession.channels: channel id -> SshChannel
  nextChan,    \* the next channel id the SSH layer hands out
  pc,          \* where the connection's event loop is
  loc,         \* locals of the handler in progress
  last,        \* the handler that finished last and what it returned
  containers,  \* the engine's containers
  execs,       \* the engine's exec processes, by exec id
  delivered,   \* per exec, the payloads of the data frames handed to data()
               \* while the exec was its channel's attachment
  clock,          \* the wall clock, in seconds (OffsetDateTime::now_utc)
  web_sessions,   \* the rows of the sessions table, by session_token
  verifying,      \* the verify calls between their SELECT and their UPDATE
  web_last,       \* the AppSessions call that returned last, and its result
  lapsed,         \* the tokens a verify has refused for the timeout
  connections,    \* ChatState.connections: username -> Connection
  rooms,          \* ChatState.rooms: room name -> Room
  guest_id_counter, \* ChatState.guest_id_counter
  sockets,        \* the chat websockets: where handle_chat_socket is, and
                  \* the responses its receiver has been handed
  chat_last       \* the chat message sent last and the sockets it reached

webVars  == << clock, web_sessions, verifying, web_last, lapsed >>
chatVars == << connections, rooms, guest_id_counter, sockets, chat_last >>
appVars  == << webVars, chatVars >>

vars == << alive, authed, accepted, user, lookups, term, command, channels, nextChan, pc, loc, last,
           containers, execs, delivered, appVars >>

sessionVars == << alive, authed, accepted, user, lookups, term, command, channels, nextChan >>
engineVars  == << containers, execs, delivered >>
gatewayVars == << sessionVars, pc, loc, last, engineVars >>

NoChannels == [c \in ChannelIds |-> None]
NoLocals   == [op |-> "none", ch |-> 0, command |-> None, container |-> None]
NoLast     == [s |-> 0, op |-> "none", ch |-> 0, res |-> "Ok", why |-> "none"]

(* ------------------- web sessions and chat: state ---------------------- *)
SESSION_TIMEOUT == 60 * 60 * 24 * 7      \* 7 days, in seconds

WebTokens   == { "t1", "t2" }            \* the tokens cuid() hands out
WebUsers    == { "alice" }
WebRequests == { 1, 2 }                  \* verify calls that may overlap

NoWebLast == [op |-> "none", token |-> "none", res |-> "none"]

\* AppSessions::new: an empty sessions table
InitWeb ==
  /\ clock        = 0
  /\ web_sessions = [t \in WebTokens |-> None]
  /\ verifying    = [r \in WebRequests |-> None]
  /\ web_last     = NoWebLast
  /\ lapsed       = {}

Sockets    == 1..MaxSockets
ChatNames  == { "alice", "bob" }         \* usernames of logged-in chatters
GuestNames == << "guest-0", "guest-1", "guest-2", "guest-3" >>
ChatRooms  == { "general", "lobby" }     \* room names a request may carry
ChatTexts  == { "hi", "/help" }          \* messages a request may carry

\* Room::default
NewRoom == [connected_users |-> {}, message_history |-> << >>]

NoSocket   == [st |-> "new", username |-> "none", inbox |-> << >>]
NoChatLast == [room |-> "none", username |-> "none", message |-> "none"]

\* ChatState::new: the room "general" and no connection
InitChat ==
  /\ connections      = [u \in {} |-> 0]
  /\ rooms            = [general |-> NewRoom]
  /\ guest_id_counter = 0
  /\ sockets          = [k \in Sockets |-> NoSocket]
  /\ chat_last        = NoChatLast

\* SshSession::new, for every connection the server accepts
Init ==
  /\ alive      = [s \in Sessions |-> TRUE]
  /\ authed     = [s \in Sessions |-> FALSE]
  /\ accepted   = [s \in Sessions |-> None]
  /\ user       = [s \in Sessions |-> None]
  /\ lookups    = [s \in Sessions |-> 0]
  /\ command    = [s \in Sessions |-> None]
  /\ term       = [s \in Sessions |-> "xterm"]
  /\ channels   = [s \in Sessions |-> NoChannels]
  /\ nextChan   = [s \in Sessions |-> 1]
  /\ pc         = [s \in Sessions |-> "idle"]
  /\ loc        = [s \in Sessions |-> NoLocals]
  /\ last       = NoLast
  /\ containers = {}
  /\ execs      = << >>
  /\ delivered  = << >>
  /\ InitWeb /\ InitChat

Idle(s) == alive[s] /\ pc[s] = "idle"

Done(s, op, ch, res, why) ==
  [s |-> s, op |-> op, ch |-> ch, res |-> res, why |-> why]

\* the connection ends: the SSH layer drops the SshSession and with it the
\* channel map.  how = "failed" when a handler returned Err (the error goes
\* to handle_session_error, which only logs), "disconnected" when the client
\* went away
SessionEnds(s, how) ==
  /\ alive'    = [alive EXCEPT ![s] = FALSE]
  /\ channels' = [channels EXCEPT ![s] = NoChannels]
  /\ pc'       = [pc EXCEPT ![s] = how]
  /\ loc'      = [loc EXCEPT ![s] = NoLocals]

(* ------------------------- authentication ------------------------------ *)
\* the key parsing of get_user: only ed25519 keys are supported, and one
\* key that is not fails the whole collect
ParseKeys(public_keys) ==
  IF \A i \in 1..Len(public_keys) : public_keys[i].alg = Ed25519
  THEN Some({ public_keys[i] : i \in 1..Len(public_keys) })
  ELSE None

\* the SshUser get_user builds from a directory entry
NewSshUser(username, found, keys) ==
  [username |-> username, user |-> found, keys |-> keys]

\* get_user without the comparison of the cached username
get_user_any(cached, username) ==
  IF IsSome(cached)
  THEN [ok |-> TRUE, why |-> "cached", looked |-> FALSE, user |-> cached]
  ELSE LET found == UserGet(username) IN
       IF ~IsSome(found)
       THEN [ok |-> FALSE, why |-> "user not found", looked |-> TRUE,
             user |-> cached]
       ELSE LET keys == ParseKeys(Unwrap(found).public_keys) IN
            IF ~IsSome(keys)
            THEN [ok |-> FALSE, why |-> "only ed25519 keys are supported",
                  looked |-> TRUE, user |-> cached]
            ELSE [ok |-> TRUE, why |-> "lookup", looked |-> TRUE,
                  user |-> Some(NewSshUser(username, Unwrap(found), Unwrap(keys)))]

\* get_user without the cache: every call asks the directory
get_user_nocache(cached, username) ==
  LET found == UserGet(username) IN
  IF ~IsSome(found)
  THEN [ok |-> FALSE, why |-> "user not found", looked |-> TRUE, user |-> cached]
  ELSE LET keys == ParseKeys(Unwrap(found).public_keys) IN
       IF ~IsSome(keys)
       THEN [ok |-> FALSE, why |-> "only ed25519 keys are supported",
             looked |-> TRUE, user |-> cached]
       ELSE [ok |-> TRUE, why |-> "lookup", looked |-> TRUE,
             user |-> Some(NewSshUser(username, Unwrap(found), Unwrap(keys)))]

\* SshSession::get_user: ok, the new value of self.user, and whether
\* UserState::get was called (looked)
get_user(cached, username) ==
  IF IsSome(cached)
  THEN IF Unwrap(cached).username = username
       THEN [ok |-> TRUE,  why |-> "cached", looked |-> FALSE, user |-> cached]
       ELSE [ok |-> FALSE, why |-> "user mismatch", looked |-> FALSE,
             user |-> cached]
  ELSE LET found == UserGet(username) IN
       IF ~IsSome(found)
       THEN [ok |-> FALSE, why |-> "user not found", looked |-> TRUE,
             user |-> cached]
       ELSE LET keys == ParseKeys(Unwrap(found).public_keys) IN
            IF ~IsSome(keys)
            THEN [ok |-> FALSE, why |-> "only ed25519 keys are supported",
                  looked |-> TRUE, user |-> cached]
            ELSE [ok |-> TRUE, why |-> "lookup", looked |-> TRUE,
                  user |-> Some(NewSshUser(username, Unwrap(found), Unwrap(keys)))]

\* the calls of UserState::get after a get_user for connection s
Looked(s, r) == [lookups EXCEPT ![s] = IF r.looked THEN @ + 1 ELSE @]

\* how a connection was accepted: the method and, for publickey, whether
\* the key is one of the keys of the cached identity (the one attach uses)
AcceptedBy(method, cached, public_key) ==
  [method |-> method,
   registered |-> method = "publickey" /\ IsSome(cached)
                  /\ public_key \in Unwrap(cached).keys]

\* auth_password without the test of ssh_allow_password
PasswordAnswerNoFlag(u, password) ==
  IF verify_password(password, u.user.password_hash) THEN "Accept" ELSE "Err"

\* what auth_password answers once get_user has resolved the user
PasswordAnswer(u, password) ==
  IF ~u.user.ssh_allow_password THEN "Reject"
  ELSE IF verify_password(password, u.user.password_hash) THEN "Accept"
  ELSE "Err"

auth_password(s, username, password) ==
  /\ Idle(s) /\ ~authed[s]
  /\ LET r   == get_user(user[s], username)
         res == IF r.ok THEN PasswordAnswer(Unwrap(r.user), password) ELSE "Err"
     IN /\ user'    = [user EXCEPT ![s] = r.user]
        /\ lookups' = Looked(s, r)
        /\ authed'  = [authed EXCEPT ![s] = (res = "Accept")]
        /\ accepted' = [accepted EXCEPT ![s] =
                          IF res = "Accept" THEN Some(AcceptedBy("password", r.user, None))
                          ELSE @]
        /\ last'    = Done(s, "auth_password", 0, res,
                          IF r.ok /\ res = "Err" THEN "password mismatch" ELSE r.why)
        /\ IF res = "Err"
           THEN SessionEnds(s, "failed")
           ELSE UNCHANGED << appVars, alive, channels, pc, loc >>
  /\ UNCHANGED << appVars, term, command, nextChan, engineVars >>

\* what auth_publickey_offered answers once get_user has resolved the user
OfferedAnswer(u, public_key) ==
  IF public_key \in u.keys THEN "Accept" ELSE "Reject"

auth_publickey_offered(s, username, public_key) ==
  /\ Idle(s) /\ ~authed[s]
  /\ LET r   == get_user(user[s], username)
         res == IF r.ok THEN OfferedAnswer(Unwrap(r.user), public_key) ELSE "Err"
     IN /\ user'    = [user EXCEPT ![s] = r.user]
        /\ lookups' = Looked(s, r)
        /\ last'    = Done(s, "auth_publickey_offered", 0, res, r.why)
        /\ IF res = "Err"
           THEN SessionEnds(s, "failed")
           ELSE UNCHANGED << appVars, alive, channels, pc, loc >>
  /\ UNCHANGED << appVars, authed, accepted, term, command, nextChan, engineVars >>

\* auth_publickey with the call of get_user the code has commented out
auth_publickey_checked(s, username, public_key) ==
  /\ Idle(s) /\ ~authed[s]
  /\ LET r == get_user(user[s], username)
     IN /\ user'    = [user EXCEPT ![s] = r.user]
        /\ lookups' = Looked(s, r)
        /\ authed'  = [authed EXCEPT ![s] = r.ok]
        /\ accepted' = [accepted EXCEPT ![s] =
                          IF r.ok THEN Some(AcceptedBy("publickey", r.user, public_key))
                          ELSE @]
        /\ last'    = Done(s, "auth_publickey", 0,
                          IF r.ok THEN "Accept" ELSE "Err", r.why)
        /\ IF r.ok THEN UNCHANGED << appVars, alive, channels, pc, loc >>
                   ELSE SessionEnds(s, "failed")
  /\ UNCHANGED << appVars, term, command, nextChan, engineVars >>

\* the signature has been verified by the SSH layer
auth_publickey(s, username, public_key) ==
  /\ Idle(s) /\ ~authed[s]
  /\ authed' = [authed EXCEPT ![s] = TRUE]
  /\ accepted' = [accepted EXCEPT ![s] =
                    Some(AcceptedBy("publickey", user[s], public_key))]
  /\ last'   = Done(s, "auth_publickey", 0, "Accept", "none")
  /\ UNCHANGED << appVars, alive, user, lookups, term, command, channels, nextChan, pc, loc,
                  engineVars >>

(* --------------------------- the engine -------------------------------- *)
\* the window sizes a client may send, as u32 columns and rows
Sizes    == { <<120, 40>>, <<65636, 30>> }

\* `as u16`: the low 16 bits
AsU16(n) == n % 65536
RecordedSize(size) == << AsU16(size[1]), AsU16(size[2]) >>
Terms    == { "xterm", "vt100" }
Commands == { "echo hi" }
Payloads == { <<1>>, <<2, 3>> }          \* data frames, as byte strings

\* a create_container that passes no name: the engine picks a fresh one
ContainerNameUnset(username) == << "engine-chosen", Cardinality(containers) >>

\* the name create_container gives the user's container
ContainerName(username) == << DOCKER_CONTAINER_PREFIX, username >>

\* the engine lists a container's name with a leading slash
ListedName(name) == << "/" >> \o name

\* a get_container that tests whether a listed name contains the user's name
\* as a substring: "/dawdle-home-alice" is found in "/dawdle-home-alice-7"
get_container_substring(username) ==
  LET found == { c \in containers :
                   /\ c.name[1] = DOCKER_CONTAINER_PREFIX
                   /\ Len(Spell[username]) <= Len(Spell[c.name[2]])
                   /\ \A i \in 1..Len(Spell[username]) :
                        Spell[username][i] = Spell[c.name[2]][i] }
  IN IF found = {} THEN None ELSE Some((CHOOSE c \in found : TRUE).id)

\* Containers::get_container: the listed container one of whose names is
\* exactly the user's
get_container(username) ==
  LET found == { c \in containers :
                   ListedName(c.name) = << "/" >> \o ContainerName(username) }
  IN IF found = {} THEN None ELSE Some((CHOOSE c \in found : TRUE).id)

\* the engine refuses a create whose name is taken ("already exists")
NameTaken(name) == \E c \in containers : c.name = name

NewContainer(name, username) ==
  [ id |-> Cardinality(containers) + 1, name |-> name,
    env |-> username, running |-> FALSE ]

\* the command line Containers::attach builds
ExecCmd(cmd) ==
  IF IsSome(cmd) THEN << "/bin/bash", "-c", << "set -e; ", Unwrap(cmd) >> >>
  ELSE << "/bin/zsh", "-l", "-i" >>

NewExec(s, ch, container, username, cmd, tty) ==
  [ container |-> container, cmd |-> ExecCmd(cmd),
    working_dir |-> << "/home/", username >>, tty |-> tty,
    running |-> TRUE, size |-> None, stdin |-> << >>, kills |-> 0,
    detached |-> FALSE, session |-> s, ch |-> ch, bridge |-> "running", out |-> 0,
    sent |-> << >> ]

\* the engine's answer to inspect_exec
InspectExec(id) ==
  [ running |-> Some(execs[id].running), pid |-> Some(id),
    container_id |-> Some(execs[id].container) ]

\* a single write instead of write_all: only part of the payload is written
WritePartial(stdin, data) == stdin \o << Head(data) >>

\* AsyncWriteExt::write_all on the input sink
WriteAll(stdin, data) == stdin \o data

Flatten(frames) ==
  LET F[i \in 0..Len(frames)] == IF i = 0 THEN << >> ELSE F[i-1] \o frames[i]
  IN F[Len(frames)]

Sum(f) ==
  LET S[i \in 0..Len(f)] == IF i = 0 THEN 0 ELSE S[i-1] + f[i]
  IN S[Len(f)]

FramesDelivered == Sum([id \in 1..Len(delivered) |-> Len(delivered[id])])
ChunksRead == Sum([id \in 1..Len(execs) |-> execs[id].out])

\* attach calls in progress that will still create an exec
Attaching == { s \in Sessions : pc[s] \in { "get_container", "create_container",
                                            "start_container", "create_exec" } }

(* --------------------------- channel handlers -------------------------- *)
NewChannel == [ pty |-> None, pty_term |-> None, pty_modes |-> None,
                pty_size |-> None ]

\* a handler returns: chans is the channel map it leaves behind
Finish(s, op, ch, res, why, chans) ==
  /\ last' = Done(s, op, ch, res, why)
  /\ IF res = "Err"
     THEN SessionEnds(s, "failed")
     ELSE /\ pc'       = [pc EXCEPT ![s] = "idle"]
          /\ loc'      = [loc EXCEPT ![s] = NoLocals]
          /\ channels' = [channels EXCEPT ![s] = chans]
          /\ UNCHANGED alive

channel_open_session(s) ==
  /\ Idle(s) /\ authed[s]
  /\ nextChan[s] \in ChannelIds
  /\ channels' = [channels EXCEPT ![s][nextChan[s]] = Some(NewChannel)]
  /\ nextChan' = [nextChan EXCEPT ![s] = @ + 1]
  /\ last'     = Done(s, "channel_open_session", nextChan[s], "Ok", "none")
  /\ UNCHANGED << appVars, alive, authed, accepted, user, lookups, term, command, pc, loc, engineVars >>

\* the environment variables a client may send
EnvVars == { << "LANG", "C" >>, << "EDITOR", "vi" >> }

env_request(s, ch, variable_name, variable_value) ==
  /\ Idle(s) /\ authed[s]
  /\ last' = Done(s, "env_request", ch, "Ok", "none")
  /\ UNCHANGED << appVars, sessionVars, pc, loc, engineVars >>

\* a pty_request that also resizes the exec of an attached channel
pty_request_resizing(s, ch, pty_term, size) ==
  /\ Idle(s) /\ authed[s]
  /\ term' = [term EXCEPT ![s] = pty_term]
  /\ channels' = [channels EXCEPT ![s][ch] =
                    IF IsSome(@)
                    THEN Some([Unwrap(@) EXCEPT !.pty_size  = Some(RecordedSize(size)),
                                                !.pty_modes = Some("modes"),
                                                !.pty_term  = Some(pty_term)])
                    ELSE @]
  /\ execs' = IF IsSome(channels[s][ch]) /\ IsSome(Unwrap(channels[s][ch]).pty)
              THEN [execs EXCEPT ![Unwrap(Unwrap(channels[s][ch]).pty)].size =
                                   Some(RecordedSize(size))]
              ELSE execs
  /\ last' = Done(s, "pty_request", ch, "Ok", "none")
  /\ UNCHANGED << appVars, alive, authed, accepted, user, lookups, command, nextChan, pc, loc,
                  containers, delivered >>

\* a pty_request that inserts an entry for a channel id the map does not hold
pty_request_upsert(s, ch, pty_term, size) ==
  /\ Idle(s) /\ authed[s]
  /\ term' = [term EXCEPT ![s] = pty_term]
  /\ channels' = [channels EXCEPT ![s][ch] =
                    Some([(IF IsSome(@) THEN Unwrap(@) ELSE NewChannel) EXCEPT
                            !.pty_size  = Some(RecordedSize(size)),
                            !.pty_modes = Some("modes"),
                            !.pty_term  = Some(pty_term)])]
  /\ last' = Done(s, "pty_request", ch, "Ok", "none")
  /\ UNCHANGED << appVars, alive, authed, accepted, user, lookups, command, nextChan, pc, loc,
                  engineVars >>

\* SshSession::pty_request: alter changes the entry of a channel the map holds
pty_request(s, ch, pty_term, size) ==
  /\ Idle(s) /\ authed[s]
  /\ term' = [term EXCEPT ![s] = pty_term]
  /\ channels' = [channels EXCEPT ![s][ch] =
                    IF IsSome(@)
                    THEN Some([Unwrap(@) EXCEPT !.pty_size  = Some(RecordedSize(size)),
                                                !.pty_modes = Some("modes"),
                                                !.pty_term  = Some(pty_term)])
                    ELSE @]
  /\ last' = Done(s, "pty_request", ch, "Ok", "none")
  /\ UNCHANGED << appVars, alive, authed, accepted, user, lookups, command, nextChan, pc, loc,
                  engineVars >>

\* the head of shell_request, up to the call of Containers::attach
ShellBegin(s, ch, op, cmd) ==
  IF ~IsSome(user[s])
  THEN Finish(s, op, ch, "Err", "user not found", channels[s])
  ELSE IF ~IsSome(channels[s][ch])
  THEN Finish(s, op, ch, "Err", "channel not found", channels[s])
  ELSE /\ pc'  = [pc EXCEPT ![s] = "get_container"]
       /\ loc' = [loc EXCEPT ![s] = [op |-> op, ch |-> ch, command |-> cmd,
                                     container |-> None]]
       /\ UNCHANGED << appVars, alive, channels, last >>

shell_request(s, ch) ==
  /\ Idle(s) /\ authed[s]
  /\ Len(execs) + Cardinality(Attaching) < MaxExecs
  /\ ShellBegin(s, ch, "shell_request", command[s])
  /\ UNCHANGED << appVars, authed, accepted, user, lookups, term, command, nextChan, engineVars >>

exec_request(s, ch, utf8, data) ==
  /\ Idle(s) /\ authed[s]
  /\ Len(execs) + Cardinality(Attaching) < MaxExecs
  /\ IF ~utf8
     THEN /\ Finish(s, "exec_request", ch, "Err", "command is not valid utf8",
                    channels[s])
          /\ UNCHANGED command
     ELSE /\ command' = [command EXCEPT ![s] = Some(<< ExecEcho, data >>)]
          /\ ShellBegin(s, ch, "exec_request", Some(<< ExecEcho, data >>))
  /\ UNCHANGED << appVars, authed, accepted, user, lookups, term, nextChan, engineVars >>

(* --------------- Containers::attach, inside shell_request -------------- *)
\* the pty spec shell_request hands to attach: none
AttachTty == None

AttachFails(s, why) ==
  Finish(s, loc[s].op, loc[s].ch, "Err", why, channels[s])

Username(s) == Unwrap(user[s]).username

\* get_container: list the engine's containers and look for the user's
attach_get_container(s, engineOk) ==
  /\ alive[s] /\ pc[s] = "get_container"
  /\ is_valid_username(Username(s))
  /\ IF ~engineOk
     THEN AttachFails(s, "engine error")
     ELSE LET found == get_container(Username(s)) IN
          /\ pc'  = [pc EXCEPT ![s] = IF IsSome(found) THEN "start_container"
                                      ELSE "create_container"]
          /\ loc' = [loc EXCEPT ![s].container = found]
          /\ UNCHANGED << appVars, alive, channels, last >>
  /\ UNCHANGED << appVars, authed, accepted, user, lookups, term, command, nextChan, engineVars >>

\* create_container: the engine's create, under the user's container name
attach_create_container(s, engineOk) ==
  /\ alive[s] /\ pc[s] = "create_container"
  /\ is_valid_username(Username(s))
  /\ LET name == ContainerName(Username(s))
         c    == NewContainer(name, Username(s))
     IN IF ~engineOk
        THEN AttachFails(s, "engine error") /\ UNCHANGED containers
        ELSE IF NameTaken(name)
        THEN AttachFails(s, "name collision") /\ UNCHANGED containers
        ELSE /\ containers' = containers \cup { c }
             /\ pc'  = [pc EXCEPT ![s] = "start_container"]
             /\ loc' = [loc EXCEPT ![s].container = Some(c.id)]
             /\ UNCHANGED << appVars, alive, channels, last >>
  /\ UNCHANGED << appVars, authed, accepted, user, lookups, term, command, nextChan, execs, delivered >>

\* start_container: starting a running container succeeds too
attach_start_container(s, engineOk) ==
  /\ alive[s] /\ pc[s] = "start_container"
  /\ IF ~engineOk
     THEN AttachFails(s, "engine error") /\ UNCHANGED containers
     ELSE /\ containers' =
               { IF c.id = Unwrap(loc[s].container)
                 THEN [c EXCEPT !.running = TRUE] ELSE c : c \in containers }
          /\ pc' = [pc EXCEPT ![s] = "create_exec"]
          /\ UNCHANGED << appVars, alive, channels, last, loc >>
  /\ UNCHANGED << appVars, authed, accepted, user, lookups, term, command, nextChan, execs, delivered >>

\* the channel record once shell_request has stored the attachment
StorePty(channel, id) == [channel EXCEPT !.pty = Some(id)]

\* create_exec and start_exec; back in shell_request the attachment is
\* stored in the channel and the bridge task is spawned
attach_exec(s, engineOk) ==
  /\ alive[s] /\ pc[s] = "create_exec"
  /\ IF ~engineOk
     THEN AttachFails(s, "engine error") /\ UNCHANGED << appVars, execs, delivered >>
     ELSE LET id == Len(execs) + 1
              ch == loc[s].ch
          IN /\ execs' = Append(execs,
                           NewExec(s, ch, Unwrap(loc[s].container), Username(s),
                                   loc[s].command, IsSome(AttachTty)))
             /\ delivered' = Append(delivered, << >>)
             /\ channels' = [channels EXCEPT ![s][ch] =
                               Some(StorePty(Unwrap(@), id))]
             /\ pc' = [pc EXCEPT ![s] = "resize"]
             /\ UNCHANGED << appVars, alive, last, loc >>
  /\ UNCHANGED << appVars, authed, accepted, user, lookups, term, command, nextChan, containers >>

\* Containers::resize: the engine refuses to resize an exec that has exited
ResizeOk(id, engineOk) == engineOk /\ execs[id].running

\* a resize that passes the width as height and the height as width
ResizedSwapped(id, size) ==
  [execs EXCEPT ![id].size = Some(<< size[2], size[1] >>)]

Resized(id, size) ==
  [execs EXCEPT ![id].size = Some(size)]

\* a shell_request that never uses the recorded size
InitialSizeDefault(pty_size) == DefaultSize

\* channel.pty_size.unwrap_or((80, 24))
InitialSize(pty_size) ==
  IF IsSome(pty_size) THEN Unwrap(pty_size) ELSE DefaultSize

\* the tail of shell_request: resize the new exec to the recorded size
shell_resize(s, engineOk) ==
  /\ alive[s] /\ pc[s] = "resize"
  /\ LET ch      == loc[s].ch
         channel == Unwrap(channels[s][ch])
         size    == InitialSize(channel.pty_size)
     IN IF IsSome(channel.pty)
        THEN IF ResizeOk(Unwrap(channel.pty), engineOk)
             THEN /\ execs' = Resized(Unwrap(channel.pty), size)
                  /\ Finish(s, loc[s].op, ch, "Ok", "none", channels[s])
             ELSE /\ UNCHANGED execs
                  /\ Finish(s, loc[s].op, ch, "Err", "resize failed", channels[s])
        ELSE /\ UNCHANGED execs
             /\ Finish(s, loc[s].op, ch, "Ok", "none", channels[s])
  /\ UNCHANGED << appVars, authed, accepted, user, lookups, term, command, nextChan, containers, delivered >>

(* ------------- the adapter, called with any username ------------------ *)
\* assert!(is_valid_username(user)) failed: the caller is aborted
Abort(op) ==
  /\ last' = Done(0, op, 0, "panic", "assertion failed")
  /\ UNCHANGED << appVars, sessionVars, pc, loc, engineVars >>

\* Containers::get_container, called with username
get_container_call(username, engineOk) ==
  IF ~is_valid_username(username)
  THEN Abort("get_container")
  ELSE /\ last' = IF ~engineOk
                  THEN Done(0, "get_container", 0, "Err", "engine error")
                  ELSE Done(0, "get_container", 0, "Ok",
                            IF IsSome(get_container(username)) THEN "found"
                            ELSE "none")
       /\ UNCHANGED << appVars, sessionVars, pc, loc, engineVars >>

\* Containers::create_container, called with username
create_container_call(username, engineOk) ==
  IF ~is_valid_username(username)
  THEN Abort("create_container")
  ELSE LET name == ContainerName(username) IN
       /\ IF ~engineOk
          THEN /\ last' = Done(0, "create_container", 0, "Err", "engine error")
               /\ UNCHANGED containers
          ELSE IF NameTaken(name)
          THEN /\ last' = Done(0, "create_container", 0, "Err", "name collision")
               /\ UNCHANGED containers
          ELSE /\ last' = Done(0, "create_container", 0, "Ok", "none")
               /\ containers' = containers \cup { NewContainer(name, username) }
       /\ UNCHANGED << appVars, sessionVars, pc, loc, execs, delivered >>

\* the engine calls of Containers::attach, in order
AttachCalls == << "list_containers", "create_container", "start_container",
                 "create_exec" >>

\* Containers::attach, called with username and no command; fail names the
\* engine call that returns an error ("none": every call succeeds)
attach_call(username, fail) ==
  IF ~is_valid_username(username)
  THEN Abort("attach")
  ELSE LET found   == get_container(username)
           created == NewContainer(ContainerName(username), username)
           id      == IF IsSome(found) THEN Unwrap(found) ELSE created.id
           held    == IF IsSome(found) \/ fail \in { "list_containers", "create_container" }
                      THEN containers ELSE containers \cup { created }
           started == IF fail \in { "list_containers", "create_container",
                                    "start_container" }
                      THEN held
                      ELSE { IF c.id = id THEN [c EXCEPT !.running = TRUE] ELSE c :
                             c \in held }
       IN /\ Len(execs) < MaxExecs
          /\ containers' = started
          /\ IF fail = "none"
             THEN /\ execs' = Append(execs, NewExec(0, 0, id, username, None,
                                                    IsSome(AttachTty)))
                  /\ delivered' = Append(delivered, << >>)
                  /\ last' = Done(0, "attach", 0, "Ok", "none")
             ELSE /\ UNCHANGED << appVars, execs, delivered >>
                  /\ last' = Done(0, "attach", 0, "Err", fail)
          /\ UNCHANGED << appVars, sessionVars, pc, loc >>

(* ------------------------ data, resize, teardown ----------------------- *)
data(s, ch, payload) ==
  /\ Idle(s) /\ authed[s]
  /\ IF ~IsSome(channels[s][ch])
     THEN /\ Finish(s, "data", ch, "Err", "channel not found", channels[s])
          /\ UNCHANGED << appVars, execs, delivered >>
     ELSE LET pty == Unwrap(channels[s][ch]).pty IN
          IF IsSome(pty)
          THEN LET id == Unwrap(pty) IN
               /\ FramesDelivered < MaxData
               /\ delivered' = [delivered EXCEPT ![id] =
                    Append(@, [payload |-> payload, open |-> execs[id].running])]
               /\ execs' = IF execs[id].running
                           THEN [execs EXCEPT ![id].stdin = WriteAll(@, payload)]
                           ELSE execs           \* "failed to write to pty"
               /\ Finish(s, "data", ch, "Ok", "none", channels[s])
          ELSE /\ Finish(s, "data", ch, "Ok", "no pty", channels[s])
               /\ UNCHANGED << appVars, execs, delivered >>
  /\ UNCHANGED << appVars, authed, accepted, user, lookups, term, command, nextChan, containers >>

window_change_request(s, ch, size, engineOk) ==
  /\ Idle(s) /\ authed[s]
  /\ IF ~IsSome(channels[s][ch])
     THEN /\ Finish(s, "window_change_request", ch, "Err", "channel not found",
                    channels[s])
          /\ UNCHANGED execs
     ELSE LET channel == [Unwrap(channels[s][ch]) EXCEPT
                               !.pty_size = Some(RecordedSize(size))]
              chans   == [channels[s] EXCEPT ![ch] = Some(channel)]
          IN IF IsSome(channel.pty)
             THEN IF ResizeOk(Unwrap(channel.pty), engineOk)
                  THEN /\ execs' = Resized(Unwrap(channel.pty), RecordedSize(size))
                       /\ Finish(s, "window_change_request", ch, "Ok", "none", chans)
                  ELSE /\ UNCHANGED execs
                       /\ Finish(s, "window_change_request", ch, "Err",
                                 "resize failed", chans)
             ELSE /\ UNCHANGED execs
                  /\ Finish(s, "window_change_request", ch, "Ok", "none", chans)
  /\ UNCHANGED << appVars, authed, accepted, user, lookups, term, command, nextChan, containers, delivered >>

\* a kill of every process of the exec's container
KilledAll(es, pid) ==
  [id \in DOMAIN es |->
     IF es[id].container = es[pid].container
     THEN [es[id] EXCEPT !.kills = @ + 1, !.running = FALSE] ELSE es[id]]

\* /bin/kill -9 of the exec's process, run inside its container
Killed(es, pid) == [es EXCEPT ![pid].kills = @ + 1, ![pid].running = FALSE]

\* Containers::detatch: [ok, why, execs], the engine's execs afterwards;
\* detached records that detatch was called for the exec
detatch(id, inspectOk, killOk) ==
  LET called == [execs EXCEPT ![id].detached = TRUE] IN
  IF ~inspectOk
  THEN [ok |-> FALSE, why |-> "inspect failed", execs |-> called]
  ELSE LET exec == InspectExec(id) IN
       IF IsSome(exec.running)
       THEN IF ~killOk
            THEN [ok |-> FALSE, why |-> "kill failed", execs |-> called]
            ELSE [ok |-> TRUE, why |-> "none",
                  execs |-> Killed(called, Unwrap(exec.pid))]
       ELSE [ok |-> TRUE, why |-> "none", execs |-> called]

\* a lookup that leaves the channel in the map
KeepChannel(chans, ch) == chans

\* self.channels.remove(&channel_id)
RemoveChannel(chans, ch) == [chans EXCEPT ![ch] = None]

channel_close(s, ch, inspectOk, killOk) ==
  /\ Idle(s) /\ authed[s]
  /\ LET removed == channels[s][ch]
         chans   == RemoveChannel(channels[s], ch)
     IN IF IsSome(removed) /\ IsSome(Unwrap(removed).pty)
        THEN LET d == detatch(Unwrap(Unwrap(removed).pty), inspectOk, killOk) IN
             /\ execs' = d.execs
             /\ Finish(s, "channel_close", ch, IF d.ok THEN "Ok" ELSE "Err",
                       d.why, chans)
        ELSE /\ UNCHANGED execs
             /\ Finish(s, "channel_close", ch, "Ok", "none", chans)
  /\ UNCHANGED << appVars, authed, accepted, user, lookups, term, command, nextChan, containers, delivered >>

\* SshSession does not override channel_eof: the SSH layer's default answers
channel_eof(s, ch) ==
  /\ Idle(s) /\ authed[s]
  /\ last' = Done(s, "channel_eof", ch, "Ok", "none")
  /\ UNCHANGED << appVars, sessionVars, pc, loc, engineVars >>

subsystem_request(s, ch, name) ==
  /\ Idle(s) /\ authed[s]
  /\ IF name = "sftp"
     THEN IF IsSome(channels[s][ch])
          THEN Finish(s, "subsystem_request", ch, "Ok", "sftp",
                      RemoveChannel(channels[s], ch))
          ELSE Finish(s, "subsystem_request", ch, "Err", "channel not found",
                      channels[s])
     ELSE Finish(s, "subsystem_request", ch, "Ok", "channel_failure", channels[s])
  /\ UNCHANGED << appVars, authed, accepted, user, lookups, term, command, nextChan, engineVars >>

\* the client goes away: the SSH layer drops the SshSession, no handler runs
disconnect(s) ==
  /\ Idle(s)
  /\ SessionEnds(s, "disconnected")
  /\ last' = Done(s, "disconnect", 0, "Ok", "none")
  /\ UNCHANGED << appVars, authed, accepted, user, lookups, term, command, nextChan, engineVars >>

(* ------------------- exec processes and bridge tasks ------------------- *)
\* the process of an exec exits on its own
exec_exit(id) ==
  /\ execs[id].running
  /\ execs' = [execs EXCEPT ![id].running = FALSE]
  /\ UNCHANGED << appVars, sessionVars, pc, loc, last, containers, delivered >>

\* the bridge task reads a chunk and sends it as a data frame
bridge_data(id) ==
  /\ execs[id].bridge = "running" /\ execs[id].running
  /\ ChunksRead < MaxOut
  /\ execs' = IF alive[execs[id].session]
              THEN [execs EXCEPT ![id].out = @ + 1,
                                 ![id].sent = Append(@, "data")]
              ELSE [execs EXCEPT ![id].bridge = "panicked"]
  /\ UNCHANGED << appVars, sessionVars, pc, loc, last, containers, delivered >>

\* the output stream ended: the bridge task sends eof and close (sent is the
\* sequence of frames the task has sent to the client)
bridge_end(id) ==
  /\ execs[id].bridge = "running" /\ ~execs[id].running
  /\ execs' = IF alive[execs[id].session]
              THEN [execs EXCEPT ![id].bridge = "closed",
                                 ![id].sent = @ \o << "eof", "close" >>]
              ELSE [execs EXCEPT ![id].bridge = "panicked"]
  /\ UNCHANGED << appVars, sessionVars, pc, loc, last, containers, delivered >>

(* ------------------------- web sessions -------------------------------- *)
\* the row AppSessions::create inserts: created_at and last_active default to
\* the time of the insert, logged_out to false
NewWebSession(username) ==
  [username |-> username, created_at |-> clock, last_active |-> clock,
   logged_out |-> FALSE]

\* what an AppSessions call returned
WebDone(op, token, res) == [op |-> op, token |-> token, res |-> res]

\* AppSessions::create
create(token, username) ==
  /\ ~IsSome(web_sessions[token])          \* cuid() is fresh
  /\ web_sessions' = [web_sessions EXCEPT ![token] = Some(NewWebSession(username))]
  /\ web_last' = WebDone("create", token, "Ok")
  /\ UNCHANGED << clock, verifying, lapsed, chatVars, gatewayVars >>

\* UPDATE sessions SET logged_out = 1
LoggedOut(row) == [row EXCEPT !.logged_out = TRUE]

\* AppSessions::logout
logout(token) ==
  /\ web_sessions' = [web_sessions EXCEPT ![token] =
                        IF IsSome(@) THEN Some(LoggedOut(Unwrap(@))) ELSE @]
  /\ web_last' = WebDone("logout", token, "Ok")
  /\ UNCHANGED << clock, verifying, lapsed, chatVars, gatewayVars >>

\* now - last_active > SESSION_TIMEOUT
TimedOut(now, last_active) == now - last_active > SESSION_TIMEOUT

\* AppSessions::verify, up to its UPDATE: the SELECT, the logged_out test
\* and the timeout test against the clock read at that point
verify_select(r, token) ==
  /\ ~IsSome(verifying[r])
  /\ LET row == web_sessions[token] IN
     IF ~IsSome(row)
     THEN /\ web_last' = WebDone("verify", token, "Err")    \* query_row: no row
          /\ UNCHANGED << verifying, lapsed >>
     ELSE IF Unwrap(row).logged_out
     THEN /\ web_last' = WebDone("verify", token, "None")
          /\ UNCHANGED << verifying, lapsed >>
     ELSE IF TimedOut(clock, Unwrap(row).last_active)
     THEN /\ web_last' = WebDone("verify", token, "None")
          /\ lapsed'   = lapsed \cup { token }
          /\ UNCHANGED verifying
     ELSE /\ verifying' = [verifying EXCEPT ![r] =
                             Some([token |-> token, now |-> clock,
                                   session |-> Unwrap(row)])]
          /\ UNCHANGED << web_last, lapsed >>
  /\ UNCHANGED << clock, web_sessions, chatVars, gatewayVars >>

\* AppSessions::verify, its UPDATE of last_active and its return
verify_update(r) ==
  /\ IsSome(verifying[r])
  /\ LET v == Unwrap(verifying[r]) IN
     /\ web_sessions' = [web_sessions EXCEPT ![v.token] =
                           Some([Unwrap(@) EXCEPT !.last_active = v.now])]
     /\ web_last' = WebDone("verify", v.token, "Some")
  /\ verifying' = [verifying EXCEPT ![r] = None]
  /\ UNCHANGED << clock, lapsed, chatVars, gatewayVars >>

\* time passes: d seconds; a verify call is between its two statements for
\* seconds at most, not for days
tick(d) ==
  /\ d > MaxSeconds => \A r \in WebRequests : ~IsSome(verifying[r])
  /\ (clock + d) \div SESSION_TIMEOUT <= MaxWeeks
  /\ (clock + d) % SESSION_TIMEOUT <= MaxSeconds
  /\ clock' = clock + d
  /\ UNCHANGED << web_sessions, verifying, web_last, lapsed, chatVars, gatewayVars >>

(* ------------------------------ chat ----------------------------------- *)
\* format!("guest-{}", id)
GuestName(id) == GuestNames[id + 1]

\* the sockets whose receiver is subscribed to the channel socket c created
Subscribers(c) == { k \in Sockets : k = c /\ sockets[k].st = "subscribed" }

\* broadcast::Sender::send on the channel of socket c: every subscribed
\* receiver is handed the response
Sent(socks, c, response) ==
  [k \in Sockets |->
     IF k \in Subscribers(c)
     THEN [socks[k] EXCEPT !.inbox = Append(@, response)] ELSE socks[k]]

\* RingBuffer::push with capacity 20
RingPush(history, item) ==
  IF Len(history) < 20 THEN Append(history, item)
  ELSE Append(Tail(history), item)

\* handle_chat_socket: ChatState::connect
chat_connect(k, username) ==
  /\ sockets[k].st = "new"
  /\ guest_id_counter < Len(GuestNames)
  /\ LET name == IF IsSome(username) THEN Unwrap(username)
                 ELSE GuestName(guest_id_counter)
     IN /\ connections' = [u \in DOMAIN connections \cup { name } |->
                             IF u = name THEN k ELSE connections[u]]
        /\ sockets' = [sockets EXCEPT ![k].st = "connected",
                                      ![k].username = name]
  /\ guest_id_counter' = IF IsSome(username) THEN guest_id_counter
                         ELSE guest_id_counter + 1
  /\ UNCHANGED << rooms, chat_last, webVars, gatewayVars >>

\* ChatState::join_room
join_room(rms, room, username) ==
  IF room \in DOMAIN rms
  THEN [rms EXCEPT ![room].connected_users = @ \cup { username }]
  ELSE rms

\* handle_chat_socket: join_room("general")
chat_join(k) ==
  /\ sockets[k].st = "connected"
  /\ rooms' = join_room(rooms, "general", sockets[k].username)
  /\ sockets' = [sockets EXCEPT ![k].st = "joined"]
  /\ UNCHANGED << connections, guest_id_counter, chat_last, webVars, gatewayVars >>

\* handle_chat_socket: the Info response goes out on the websocket and the
\* receiver subscribes to the connection's channel
chat_subscribe(k) ==
  /\ sockets[k].st = "joined"
  /\ sockets' = [sockets EXCEPT ![k].st = "subscribed",
                                ![k].inbox = Append(@, "info")]
  /\ UNCHANGED << connections, rooms, guest_id_counter, chat_last, webVars,
                  gatewayVars >>

\* the sockets ChatState::send_message reaches: for each connected user of
\* the room, the subscribers of the channel the map holds for the username
Reached(room) ==
  UNION { Subscribers(connections[u]) :
            u \in { v \in rooms[room].connected_users : v \in DOMAIN connections } }

\* the messages sent to the room "general" so far
ChatSent == Len(rooms["general"].message_history)

\* ChatState::handle_req for a Message request read from socket k
chat_message(k, room, message) ==
  /\ sockets[k].st = "subscribed"
  /\ ChatSent < MaxMessages /\ Len(sockets[k].inbox) <= MaxMessages
  /\ chat_last' = [room |-> room, username |-> sockets[k].username,
                   message |-> message]
  /\ IF message = "/help"                        \* handle_command
     THEN /\ sockets' = Sent(sockets, k, << "system", room, "no commands available" >>)
          /\ UNCHANGED rooms
     ELSE IF room \notin DOMAIN rooms             \* "room does not exist"
     THEN UNCHANGED << sockets, rooms >>
     ELSE LET msg == << sockets[k].username, room, message >> IN
          /\ rooms' = [rooms EXCEPT ![room].message_history = RingPush(@, msg)]
          /\ sockets' = [j \in Sockets |->
                           IF j \in Reached(room)
                           THEN [sockets[j] EXCEPT !.inbox = Append(@, msg)]
                           ELSE sockets[j]]
  /\ UNCHANGED << connections, guest_id_counter, webVars, gatewayVars >>

\* ChatState::disconnect: the username leaves every room
disconnect_rooms(rms, username) ==
  [room \in DOMAIN rms |->
     [rms[room] EXCEPT !.connected_users = @ \ { username }]]

\* the websocket of socket k ends: both tasks stop and handle_chat_socket
\* calls ChatState::disconnect
chat_disconnect(k) ==
  /\ sockets[k].st = "subscribed"
  /\ sockets' = [sockets EXCEPT ![k].st = "closed"]
  /\ rooms' = disconnect_rooms(rooms, sockets[k].username)
  /\ UNCHANGED << connections, guest_id_counter, chat_last, webVars, gatewayVars >>

\* the authentication callbacks of connection s
Auth(s) ==
  \/ \E n \in Names, p \in Passwords : auth_password(s, n, p)
  \/ \E n \in Names, k \in Keys : auth_publickey_offered(s, n, k)
  \/ \E n \in Names, k \in Keys : auth_publickey(s, n, k)

\* shell_request and exec_request of connection s, step by step
Attach(s) ==
  \/ \E ch \in ChannelIds : shell_request(s, ch)
  \/ \E ch \in ChannelIds, utf8 \in BOOLEAN, cmd \in Commands :
       exec_request(s, ch, utf8, cmd)
  \/ \E ok \in BOOLEAN : attach_get_container(s, ok)
  \/ \E ok \in BOOLEAN : attach_create_container(s, ok)
  \/ \E ok \in BOOLEAN : attach_start_container(s, ok)
  \/ \E ok \in BOOLEAN : attach_exec(s, ok)
  \/ \E ok \in BOOLEAN : shell_resize(s, ok)

\* the requests that configure a channel of connection s
Configure(s) ==
  \/ \E ch \in ChannelIds, var \in EnvVars : env_request(s, ch, var[1], var[2])
  \/ \E ch \in ChannelIds, pty_term \in Terms, size \in Sizes :
       pty_request(s, ch, pty_term, size)
  \/ \E ch \in ChannelIds, size \in Sizes, ok \in BOOLEAN :
       window_change_request(s, ch, size, ok)
  \/ \E ch \in ChannelIds, name \in { "sftp", "other" } :
       subsystem_request(s, ch, name)

\* the end of a channel or of connection s
Teardown(s) ==
  \/ \E ch \in ChannelIds, iok \in BOOLEAN, kok \in BOOLEAN :
       channel_close(s, ch, iok, kok)
  \/ \E ch \in ChannelIds : channel_eof(s, ch)
  \/ disconnect(s)

Input(s) == \E ch \in ChannelIds, payload \in Payloads : data(s, ch, payload)

\* one connection from authentication to teardown
Next ==
  \/ Auth(1) \/ channel_open_session(1) \/ Attach(1) \/ Input(1) \/ Teardown(1)
  \/ \E id \in 1..Len(execs) : exec_exit(id)
  \/ \E id \in 1..Len(execs) : bridge_data(id)
  \/ \E id \in 1..Len(execs) : bridge_end(id)

\* two connections attaching
NextRace == \E s \in Sessions : Auth(s) \/ channel_open_session(s) \/ Attach(s)

\* the authentication of two connections
NextAuth == \E s \in Sessions : Auth(s) \/ disconnect(s)

\* one connection configuring its channels
NextConfigure ==
  \/ Auth(1) \/ channel_open_session(1) \/ Configure(1) \/ Attach(1)
  \/ \E ch \in ChannelIds, iok \in BOOLEAN, kok \in BOOLEAN :
       channel_close(1, ch, iok, kok)
  \/ \E id \in 1..Len(execs) : exec_exit(id)

\* two connections attaching and closing their channels
NextShared ==
  \E s \in Sessions :
    \/ Auth(s) \/ channel_open_session(s) \/ Attach(s)
    \/ \E ch \in ChannelIds, iok \in BOOLEAN, kok \in BOOLEAN :
         channel_close(s, ch, iok, kok)

\* the adapter called directly, with valid and with invalid usernames
NextAdapter ==
  \/ \E u \in Usernames, ok \in BOOLEAN : get_container_call(u, ok)
  \/ \E u \in Usernames, ok \in BOOLEAN : create_container_call(u, ok)
  \/ \E u \in Usernames,
         fail \in { "none" } \cup { AttachCalls[i] : i \in 1..Len(AttachCalls) } :
       attach_call(u, fail)

\* one connection whose channels are removed by channel_close only
NextClosed ==
  \/ Auth(1) \/ channel_open_session(1) \/ Attach(1) \/ Input(1)
  \/ \E ch \in ChannelIds, pty_term \in Terms, size \in Sizes :
       pty_request(1, ch, pty_term, size)
  \/ \E ch \in ChannelIds, size \in Sizes, ok \in BOOLEAN :
       window_change_request(1, ch, size, ok)
  \/ \E ch \in ChannelIds, iok \in BOOLEAN, kok \in BOOLEAN :
       channel_close(1, ch, iok, kok)

\* the web sessions: create, logout, overlapping verify calls and the clock
NextWeb ==
  \/ \E token \in WebTokens, username \in WebUsers : create(token, username)
  \/ \E token \in WebTokens : logout(token)
  \/ \E r \in WebRequests, token \in WebTokens : verify_select(r, token)
  \/ \E r \in WebRequests : verify_update(r)
  \/ \E d \in { 1, SESSION_TIMEOUT } : tick(d)

\* the chat: every websocket runs handle_chat_socket as a task of its own
NextChat ==
  \E k \in Sockets :
    \/ \E username \in { None } \cup { Some(u) : u \in ChatNames } :
         chat_connect(k, username)
    \/ chat_join(k)
    \/ chat_subscribe(k)
    \/ \E room \in ChatRooms, message \in ChatTexts : chat_message(k, room, message)
    \/ chat_disconnect(k)

SpecWeb       == Init /\ [][NextWeb]_vars
SpecChat      == Init /\ [][NextChat]_vars
SpecClosed    == Init /\ [][NextClosed]_vars
SpecAdapter   == Init /\ [][NextAdapter]_vars
SpecShared    == Init /\ [][NextShared]_vars
SpecRace      == Init /\ [][NextRace]_vars
SpecAuth      == Init /\ [][NextAuth]_vars
SpecConfigure == Init /\ [][NextConfigure]_vars
(* ------------------------------ claims --------------------------------- *)
Bound(s) == Unwrap(user[s]).username

Attached(s, ch) ==
  IsSome(channels[s][ch]) /\ IsSome(Unwrap(channels[s][ch]).pty)

PtyOf(s, ch) == Unwrap(Unwrap(channels[s][ch]).pty)

ExecIds == 1..Len(execs)

\* C1: once a shell_request or exec_request has stored an attachment in a
\* channel, no later request replaces it: as long as the channel is in the
\* map its pty stays the first exec.
C1_AttachmentNeverReplaced ==
  [][ \A s \in Sessions, ch \in ChannelIds :
        ( Attached(s, ch) /\ IsSome(channels'[s][ch]) )
        => Unwrap(channels'[s][ch]).pty = Unwrap(channels[s][ch]).pty ]_vars

OwnContainers(username) == { c \in containers : c.env = username }

PastCreate(s) == pc[s] \in { "start_container", "create_exec", "resize" }

\* C2: the engine never holds two containers of one user, and holds exactly
\* one as soon as an attach for that user has found or created its container
\* (or has started an exec in it), however the attach calls of two
\* connections interleave.
C2_OneContainerPerUser ==
  \A u \in Names :
    /\ Cardinality(OwnContainers(u)) <= 1
    /\ ( \/ \E s \in Sessions : IsSome(user[s]) /\ Bound(s) = u /\ PastCreate(s)
         \/ \E id \in ExecIds : execs[id].working_dir = << "/home/", u >> )
       => Cardinality(OwnContainers(u)) = 1

\* two attach calls of one user both found no container; one created it, the
\* other's create was answered "already exists", and one container is left
C2_Witness ==
  /\ last.why = "name collision"
  /\ \E s \in Sessions : PastCreate(s) /\ Bound(s) = Bound(last.s)
  /\ Cardinality(containers) = 1

\* C3: when the engine answers create_container with a name collision, the
\* attach goes on in the existing container: the handler is not failed and
\* proceeds to start the container.
C3_CollisionIsSuccess ==
  [][ \A s \in Sessions :
        ( /\ pc[s] = "create_container"
          /\ NameTaken(ContainerName(Username(s)))
          /\ attach_create_container(s, TRUE) )
        => ( alive'[s] /\ pc'[s] = "start_container" ) ]_vars

Payload(frames) == [i \in 1..Len(frames) |-> frames[i].payload]

IsOpen(frame) == frame.open

\* C4 as stated: for every attached channel the bytes written to the input
\* of its exec are the concatenation, in arrival order, of the payloads of
\* all the data frames delivered to it.
C4_AllFramesWritten ==
  \A s \in Sessions, ch \in ChannelIds :
    Attached(s, ch) =>
      execs[PtyOf(s, ch)].stdin = Flatten(Payload(delivered[PtyOf(s, ch)]))

\* C4 amended: the bytes written to the input of an exec are the
\* concatenation, in arrival order, of the payloads of the data frames
\* delivered while its process was running; a frame delivered after the
\* process has exited is not written.
C4_RunningFramesWritten ==
  \A id \in ExecIds :
    execs[id].stdin = Flatten(Payload(SelectSeq(delivered[id], IsOpen)))

\* two different frames were written to a running exec
C4_Witness ==
  \E id \in ExecIds :
    /\ Len(delivered[id]) = 2
    /\ delivered[id][1].open /\ delivered[id][2].open
    /\ delivered[id][1].payload = << 2, 3 >>
    /\ delivered[id][2].payload = << 1 >>

\* C5: a channel_close or a channel_eof on an attached channel (the engine
\* answering the calls of detatch) removes the channel from the map, leaves
\* the container in place and leaves the exec of the channel not running.
C5_CloseOrEofTearsDown ==
  [][ \A s \in Sessions, ch \in ChannelIds :
        ( /\ Attached(s, ch)
          /\ channel_eof(s, ch) \/ channel_close(s, ch, TRUE, TRUE) )
        => /\ ~IsSome(channels'[s][ch])
           /\ \E c \in containers' : c.id = execs[PtyOf(s, ch)].container
           /\ ~execs'[PtyOf(s, ch)].running ]_vars

\* C6: no exec is killed twice, whatever events follow a close; a
\* channel_close on an attached channel, when the engine answers the inspect
\* and the kill, leaves exactly one kill of the channel's exec; and no step
\* removes or stops a container.
C6_CloseKillsOnce ==
  [][ /\ \A id \in ExecIds : execs'[id].kills <= 1
      /\ \A s \in Sessions, ch \in ChannelIds :
           ( Attached(s, ch) /\ channel_close(s, ch, TRUE, TRUE) )
           => execs'[PtyOf(s, ch)].kills = 1
      /\ \A c \in containers :
           \E d \in containers' :
             d.id = c.id /\ d.name = c.name /\ (c.running => d.running) ]_vars

\* an attached channel was closed, its exec was killed once and its bridge
\* task sent its close; the container is still running
C6_Witness ==
  /\ last.op = "channel_close" /\ last.res = "Ok"
  /\ \E id \in ExecIds :
       /\ execs[id].kills = 1 /\ execs[id].bridge = "closed"
       /\ \E c \in containers : c.id = execs[id].container /\ c.running

\* C7: channel_close never returns an error, whatever the engine answers to
\* detatch.
C7_CloseNeverFails ==
  last.op = "channel_close" => last.res = "Ok"

\* C8: once the client has disconnected, no channel is left in the map of
\* the session, and every exec of the session whose bridge task has ended
\* has been detached or has exited (nothing of the session is left to run
\* a teardown later).
C8_DisconnectTearsDown ==
  \A s \in Sessions :
    pc[s] = "disconnected" =>
      /\ channels[s] = NoChannels
      /\ \A id \in ExecIds :
           ( execs[id].session = s /\ execs[id].bridge # "running" )
           => ( execs[id].detached \/ ~execs[id].running )

\* C9: once a username is bound to a session, an auth_password or an
\* auth_publickey_offered under another username returns Err (the connection
\* ends) and self.user keeps the bound identity.
C9_BoundIdentityIsFinal ==
  [][ \A s \in Sessions :
        IsSome(user[s]) =>
          /\ user'[s] = user[s]
          /\ \A n \in Names \ { Bound(s) } :
               ( \/ \E p \in Passwords : auth_password(s, n, p)
                 \/ \E k \in Keys : auth_publickey_offered(s, n, k) )
               => ( last'.res = "Err" /\ ~alive'[s] ) ]_vars

\* an offered key under another username than the bound one has been refused
C9_Witness ==
  /\ last.op = "auth_publickey_offered" /\ last.res = "Err"
  /\ IsSome(user[last.s])

\* C10: for an identity the session resolves (it is in the directory, its
\* registered keys parse and the session is not bound to another username),
\* auth_password answers Accept exactly when the identity allows password
\* authentication and the password verifies against its salted hash; it
\* never accepts for an identity whose ssh_allow_password is false.
C10_PasswordOnlyIfAllowed ==
  [][ \A s \in Sessions, n \in Names, p \in Passwords :
        auth_password(s, n, p) =>
          ( authed'[s] <=>
              /\ n \in DOMAIN Directory
              /\ IsSome(ParseKeys(Directory[n].public_keys))
              /\ Directory[n].ssh_allow_password
              /\ verify_password(p, Directory[n].password_hash)
              /\ (IsSome(user[s]) => Bound(s) = n) ) ]_vars

\* a password was accepted for an identity that allows passwords
C10_Witness ==
  /\ last.op = "auth_password" /\ last.res = "Accept"
  /\ authed[last.s]
  /\ Unwrap(user[last.s]).user.ssh_allow_password

\* the registered keys of the identity a request names
Registered(username) ==
  IF username \in DOMAIN Directory
  THEN { Directory[username].public_keys[i] :
           i \in 1..Len(Directory[username].public_keys) }
  ELSE {}

\* C11: auth_publickey_offered answers Accept exactly when the offered key
\* is one of the registered keys of the identity the request names, and
\* Reject in every other case.
C11_OfferedAnswersByKeyOnly ==
  [][ \A s \in Sessions, n \in Names, k \in Keys :
        auth_publickey_offered(s, n, k) =>
          last'.res = IF k \in Registered(n) THEN "Accept" ELSE "Reject" ]_vars

C13_IdentityResolvedOnce ==
  [][ \A s \in Sessions :
        /\ lookups'[s] <= 1
        /\ IsSome(user[s]) => lookups'[s] = lookups[s]
        /\ \A k \in Keys :
             ( /\ IsSome(user[s]) /\ k.alg # Ed25519
               /\ auth_publickey_offered(s, Bound(s), k) )
             => ( last'.res = "Reject" /\ alive'[s] ) ]_vars

\* an offered key was rejected for an identity taken from the cache, after
\* the one lookup of the session
C13_Witness ==
  /\ last.op = "auth_publickey_offered" /\ last.res = "Reject"
  /\ last.why = "cached" /\ lookups[last.s] = 1

\* C14: an authentication error (unknown user, key mismatch, password
\* mismatch) on a session that is not bound to another username is answered
\* with a rejection of the method: the callback does not return an error
\* and the connection stays up.
C14_AuthErrorRejectsMethod ==
  [][ \A s \in Sessions, n \in Names :
        ( ( ~IsSome(user[s]) \/ Bound(s) = n )
          /\ ( \/ \E p \in Passwords : auth_password(s, n, p)
               \/ \E k \in Keys : auth_publickey_offered(s, n, k) ) )
        => ( last'.res \in { "Accept", "Reject" } /\ alive'[s] ) ]_vars

\* C15: a request that names a channel id that is not in the map, or an
\* exec_request whose command is not valid UTF-8, fails alone: the
\* connection stays up and the channel map and the execs are as before.
C15_ContractErrorFailsRequestOnly ==
  [][ \A s \in Sessions, ch \in ChannelIds :
        ( \/ /\ ~IsSome(channels[s][ch])
             /\ \E size \in Sizes, ok \in BOOLEAN :
                  window_change_request(s, ch, size, ok)
          \/ \E cmd \in Commands : exec_request(s, ch, FALSE, cmd) )
        => ( alive'[s] /\ channels'[s] = channels[s] /\ execs' = execs ) ]_vars

\* C16: the exec a shell_request creates runs the interactive login shell
\* (no command), whatever requests the session handled before.
C16_ShellAttachesNoCommand ==
  [][ \A s \in Sessions :
        ( /\ pc[s] = "create_exec" /\ loc[s].op = "shell_request"
          /\ attach_exec(s, TRUE) )
        => execs'[Len(execs')].cmd = ExecCmd(None) ]_vars

\* C17: when an engine call of Containers::attach fails, the request fails
\* alone: the connection stays up, the channel stays in the map without an
\* attachment and no exec is created.
C17_AttachFailureFailsRequestOnly ==
  [][ \A s \in Sessions :
        ( \/ attach_get_container(s, FALSE) \/ attach_create_container(s, FALSE)
          \/ attach_start_container(s, FALSE) \/ attach_exec(s, FALSE) )
        => /\ alive'[s] /\ pc'[s] = "idle"
           /\ channels'[s] = channels[s] /\ execs' = execs ]_vars

\* C18: a window_change_request on an open channel without an attachment
\* returns Ok, changes no exec and records the requested size (as u16); and
\* when a shell_request or exec_request returns Ok, the size of the new
\* exec is the size recorded in the channel, 80x24 when none is recorded.
C18_SizeAppliedAtAttach ==
  [][ \A s \in Sessions :
        /\ \A ch \in ChannelIds, size \in Sizes, ok \in BOOLEAN :
             ( /\ IsSome(channels[s][ch]) /\ ~Attached(s, ch)
               /\ window_change_request(s, ch, size, ok) )
             => /\ last'.res = "Ok" /\ alive'[s] /\ execs' = execs
                /\ Unwrap(channels'[s][ch]).pty_size = Some(RecordedSize(size))
                /\ Unwrap(channels'[s][ch]).pty = None
        /\ \A ok \in BOOLEAN :
             ( shell_resize(s, ok) /\ last'.res = "Ok" )
             => LET channel == Unwrap(channels[s][loc[s].ch]) IN
                execs'[Unwrap(channel.pty)].size =
                  IF IsSome(channel.pty_size) THEN channel.pty_size
                  ELSE Some(<< 80, 24 >>) ]_vars

\* a size recorded by window_change_request before the attach is the size of
\* the exec when the shell_request has returned
C18_Witness ==
  /\ last.op = "shell_request" /\ last.res = "Ok"
  /\ Attached(last.s, last.ch)
  /\ LET channel == Unwrap(channels[last.s][last.ch]) IN
       /\ channel.pty_term = None
       /\ channel.pty_size = Some(<< 120, 40 >>)
       /\ execs[Unwrap(channel.pty)].size = Some(<< 120, 40 >>)

\* C19: a window_change_request on an attached channel (its exec running, the
\* engine answering) records the requested size and resizes the channel's
\* exec to exactly the requested columns and rows; no other exec changes.
C19_WindowChangeResizesExactly ==
  [][ \A s \in Sessions, ch \in ChannelIds, size \in Sizes :
        ( /\ Attached(s, ch) /\ execs[PtyOf(s, ch)].running
          /\ window_change_request(s, ch, size, TRUE) )
        => /\ execs'[PtyOf(s, ch)].size = Some(size)
           /\ \A id \in ExecIds \ { PtyOf(s, ch) } : execs'[id] = execs[id] ]_vars

\* C20: a resize of an exec that has exited does not fail its caller: the
\* window_change_request, or the shell_request that attached, returns Ok.
C20_ResizeOfExitedExecSucceeds ==
  [][ \A s \in Sessions :
        /\ \A ch \in ChannelIds, size \in Sizes :
             ( /\ Attached(s, ch) /\ ~execs[PtyOf(s, ch)].running
               /\ window_change_request(s, ch, size, TRUE) )
             => ( last'.res = "Ok" /\ alive'[s] )
        /\ ( /\ pc[s] = "resize" /\ ~execs[PtyOf(s, loc[s].ch)].running
             /\ shell_resize(s, TRUE) )
           => ( last'.res = "Ok" /\ alive'[s] ) ]_vars

\* the bridge tasks that send frames on channel ch of connection s
BridgeTasks(s, ch) ==
  { id \in ExecIds : /\ execs[id].session = s /\ execs[id].ch = ch
                     /\ execs[id].bridge = "running" }

\* C21: at every moment a channel id has at most one bridge task sending
\* frames for it, so the frames of a channel are the output of one process.
C21_OneBridgePerChannel ==
  \A s \in Sessions, ch \in ChannelIds : Cardinality(BridgeTasks(s, ch)) <= 1

\* C22: a bridge task that has finished has sent, after one data frame for
\* every chunk it read, an exit-status report and then the channel close,
\* and nothing else.
C22_ExitStatusThenClose ==
  \A id \in ExecIds :
    execs[id].bridge = "closed" =>
      LET sent == execs[id].sent
          k    == Len(sent)
      IN /\ k = execs[id].out + 2
         /\ \A i \in 1..(k - 2) : sent[i] = "data"
         /\ sent[k - 1] = "exit_status" /\ sent[k] = "close"

\* C23: when the send of a data frame fails because the connection is gone,
\* the bridge task stops without a panic.
C23_SendFailureBreaksQuietly ==
  [][ \A id \in ExecIds :
        ( bridge_data(id) /\ ~alive[execs[id].session] )
        => execs'[id].bridge \notin { "running", "panicked" } ]_vars

\* C24: subsystem_request "sftp" on a channel of the map removes the channel
\* and hands it to the sftp handler; a channel id that has left the map
\* never comes back, so it is handed over at most once; any other name is
\* answered with a channel failure and leaves the map as it was.
C24_SftpHandoffOnce ==
  [][ \A s \in Sessions, ch \in ChannelIds :
        /\ ( subsystem_request(s, ch, "sftp") /\ IsSome(channels[s][ch]) )
           => /\ last'.res = "Ok" /\ last'.why = "sftp" /\ alive'[s]
              /\ ~IsSome(channels'[s][ch])
              /\ \A c \in ChannelIds \ { ch } : channels'[s][c] = channels[s][c]
        /\ ( subsystem_request(s, ch, "sftp") /\ ~IsSome(channels[s][ch]) )
           => last'.why # "sftp"
        /\ ( ch < nextChan[s] /\ ~IsSome(channels[s][ch]) )
           => ~IsSome(channels'[s][ch])
        /\ subsystem_request(s, ch, "other")
           => /\ last'.res = "Ok" /\ last'.why = "channel_failure"
              /\ channels' = channels ]_vars

\* an open channel was handed to the sftp handler and has left the map
C24_Witness ==
  /\ last.op = "subsystem_request" /\ last.res = "Ok" /\ last.why = "sftp"
  /\ alive[last.s] /\ ~IsSome(channels[last.s][last.ch])

C28_UnattachedDataDropped ==
  [][ \A s \in Sessions, ch \in ChannelIds, payload \in Payloads :
        ( data(s, ch, payload) /\ ~Attached(s, ch) )
        => /\ last'.res = "Ok" /\ alive'[s]
           /\ channels' = channels /\ execs' = execs ]_vars

\* the environment list recorded in a channel (SshChannel has no such field)
EnvOf(channel) == IF "env" \in DOMAIN channel THEN channel.env ELSE << >>

\* C29: env_request returns Ok, and afterwards the environment list of the
\* channel holds the pair (name, value) and every pair it held before.
C29_EnvRecorded ==
  [][ \A s \in Sessions, ch \in ChannelIds, var \in EnvVars :
        ( IsSome(channels[s][ch]) /\ env_request(s, ch, var[1], var[2]) )
        => /\ last'.res = "Ok"
           /\ LET before == EnvOf(Unwrap(channels[s][ch]))
                  after  == EnvOf(Unwrap(channels'[s][ch]))
              IN /\ \E i \in 1..Len(after) : after[i] = var
                 /\ \A i \in 1..Len(before) :
                      \E j \in 1..Len(after) : after[j] = before[i] ]_vars

SharedContainer ==
  \A s \in Sessions, t \in Sessions, ch \in ChannelIds, c \in ChannelIds :
    ( /\ s # t /\ Attached(s, ch) /\ Attached(t, c)
      /\ IsSome(user[s]) /\ IsSome(user[t]) /\ Bound(s) = Bound(t) )
    => /\ PtyOf(s, ch) # PtyOf(t, c)
       /\ execs[PtyOf(s, ch)].container = execs[PtyOf(t, c)].container

\* C26: two connections of one user that are attached at the same time hold
\* different execs in the same container, and a channel_close in one of them
\* (the engine answering) stops the exec of that channel only: every other
\* exec and the channels of the other connection are as before.
C26_CloseKillsOwnExecOnly ==
  [][ /\ SharedContainer'
      /\ \A s \in Sessions, ch \in ChannelIds :
           ( Attached(s, ch) /\ channel_close(s, ch, TRUE, TRUE) )
           => /\ ~execs'[PtyOf(s, ch)].running
              /\ \A id \in ExecIds \ { PtyOf(s, ch) } : execs'[id] = execs[id]
              /\ \A t \in Sessions \ { s } : channels'[t] = channels[t] ]_vars

\* one connection closed its channel and its exec was killed, while the
\* other connection of the same user is still attached to a running exec of
\* the same container
C26_Witness ==
  /\ last.op = "channel_close" /\ last.res = "Ok"
  /\ \E t \in Sessions \ { last.s }, c \in ChannelIds, id \in ExecIds :
       /\ Attached(t, c) /\ execs[PtyOf(t, c)].running
       /\ execs[id].session = last.s /\ execs[id].kills = 1
       /\ execs[id].container = execs[PtyOf(t, c)].container
       /\ IsSome(user[t]) /\ IsSome(user[last.s]) /\ Bound(t) = Bound(last.s)

\* the validity the adapter requires of a username: not empty, fewer than 32
\* characters, only a-z, 0-9 and '-'
WellFormed(username) ==
  LET cs == Spell[username] IN
  /\ Len(cs) \in 1..31
  /\ \A i \in 1..Len(cs) : cs[i] \in Lowercase \cup Digits \cup { "-" }

\* C25: get_container, create_container and attach, called with a username
\* that is not well formed, abort with a panic before any engine call: the
\* engine is left as it was and the call does not return an Err; no
\* container and no exec ever belongs to such a username.
C25_InvalidNameNeverReachesEngine ==
  [][ /\ \A u \in Usernames :
           ( /\ ~WellFormed(u)
             /\ \/ \E ok \in BOOLEAN : get_container_call(u, ok)
                \/ \E ok \in BOOLEAN : create_container_call(u, ok)
                \/ \E fail \in { "none", "list_containers", "create_container",
                                  "start_container", "create_exec" } :
                     attach_call(u, fail) )
           => /\ last'.res = "panic"
              /\ containers' = containers /\ execs' = execs
      /\ \A c \in containers' : WellFormed(c.env)
      /\ \A id \in 1..Len(execs') : WellFormed(execs'[id].working_dir[2]) ]_vars

\* an attach for a username that is not well formed was aborted, after
\* engine calls for well-formed usernames had created a container
C25_Witness ==
  /\ last.op = "attach" /\ last.res = "panic"
  /\ containers # {} /\ Len(execs) > 0

\* C31 as stated: when a shell_request or exec_request returns Ok, the new
\* exec has been resized to the recorded size if the channel has one, and
\* has not been resized at all if it has none.
C31_ResizeOnlyIfRecorded ==
  [][ \A s \in Sessions, ok \in BOOLEAN :
        ( shell_resize(s, ok) /\ last'.res = "Ok" )
        => LET channel == Unwrap(channels[s][loc[s].ch]) IN
           execs'[Unwrap(channel.pty)].size = channel.pty_size ]_vars

\* C31 amended: when a shell_request or exec_request returns Ok, the new
\* exec has been resized once: to the recorded width and height if the
\* channel has a recorded size, and to 80x24 if it has none.
C31_ResizeRecordedOrDefault ==
  [][ \A s \in Sessions, ok \in BOOLEAN :
        ( shell_resize(s, ok) /\ last'.res = "Ok" )
        => LET channel == Unwrap(channels[s][loc[s].ch])
               id      == Unwrap(channel.pty)
           IN /\ execs[id].size = None
              /\ IsSome(channel.pty_size)
                 => execs'[id].size = Some(<< Unwrap(channel.pty_size)[1],
                                              Unwrap(channel.pty_size)[2] >>)
              /\ ~IsSome(channel.pty_size) => execs'[id].size = Some(<< 80, 24 >>)
              /\ \A other \in ExecIds \ { id } : execs'[other] = execs[other] ]_vars

\* a channel without a recorded size was attached and its exec is 80x24
C31_Witness ==
  /\ last.op \in { "shell_request", "exec_request" } /\ last.res = "Ok"
  /\ Attached(last.s, last.ch)
  /\ LET channel == Unwrap(channels[last.s][last.ch]) IN
       /\ channel.pty_size = None
       /\ execs[Unwrap(channel.pty)].size = Some(<< 80, 24 >>)

\* C32: detatch issues a kill only for an exec that is running: a
\* channel_close on an attached channel whose exec has already exited makes
\* no kill call, whatever the engine would answer.
C32_NoKillOfExitedExec ==
  [][ \A s \in Sessions, ch \in ChannelIds, iok \in BOOLEAN, kok \in BOOLEAN :
        ( /\ Attached(s, ch)
          /\ ~execs[PtyOf(s, ch)].running
          /\ channel_close(s, ch, iok, kok) )
        => execs'[PtyOf(s, ch)].kills = execs[PtyOf(s, ch)].kills ]_vars

\* C33: get_container(u) returns a container only when its name is exactly
\* the name derived from u, and at most one container carries that name; so
\* for distinct usernames, one a prefix of the other included, it never
\* returns the other user's container, and every exec attach starts runs in
\* the container of the username it was started for.
C33_OwnContainerOnly ==
  /\ \A u \in Usernames :
       /\ Cardinality({ c \in containers : c.name = ContainerName(u) }) <= 1
       /\ LET found == get_container(u) IN
          IsSome(found)
          => \A c \in containers :
               c.id = Unwrap(found) => c.name = ContainerName(u) /\ c.env = u
  /\ \A id \in ExecIds :
       \E c \in containers :
         /\ c.id = execs[id].container
         /\ c.env = execs[id].working_dir[2]
         /\ c.name = ContainerName(execs[id].working_dir[2])

\* "alice-7" has a container, "alice" was attached afterwards: "alice" got
\* a container of its own, where its exec runs
C33_Witness ==
  /\ last.op = "attach" /\ last.res = "Ok"
  /\ \E a \in containers, b \in containers :
       /\ a.env = "alice-7" /\ b.env = "alice" /\ a.id < b.id
       /\ \E id \in ExecIds :
            execs[id].container = b.id /\ execs[id].working_dir[2] = "alice"

\* C34: whatever authentication callbacks were delivered, a connection that
\* was accepted by public key and has started a process in the container of
\* a user was accepted with one of that user's registered keys.
C34_PublickeyAttachNeedsRegisteredKey ==
  \A id \in ExecIds :
    LET s == execs[id].session
        u == execs[id].working_dir[2]
    IN ( /\ s \in Sessions
         /\ IsSome(accepted[s])
         /\ Unwrap(accepted[s]).method = "publickey" )
       => /\ Bound(s) = u
          /\ Unwrap(user[s]).keys = Registered(u)
          /\ Unwrap(accepted[s]).registered

\* C35: whenever no handler of a connection is in progress, each exec the
\* connection has started and not detached is the attachment of exactly one
\* channel in the connection's map.
C35_NoOrphanedExec ==
  \A s \in Sessions :
    Idle(s) =>
      \A id \in ExecIds :
        ( execs[id].session = s /\ ~execs[id].detached )
        => Cardinality({ ch \in ChannelIds :
                           Attached(s, ch) /\ PtyOf(s, ch) = id }) = 1

\* C36: a registered key of another algorithm than ed25519 is rejected when
\* it is parsed and never matches, and the rejection concerns that key only:
\* for an identity with such a key, resolved on a connection that has no
\* cached identity, an offered registered ed25519 key is answered Accept, the
\* offered key of the other algorithm is answered Reject, the allowed
\* password is answered Accept, and the identity is cached in each case.
C36_OtherAlgorithmRejectsKeyOnly ==
  [][ \A s \in Sessions, n \in Names :
        ( /\ ~IsSome(user[s])
          /\ \E k \in Registered(n) : k.alg # Ed25519 )
        => /\ \A k \in Registered(n) :
                auth_publickey_offered(s, n, k)
                => /\ last'.res = IF k.alg = Ed25519 THEN "Accept" ELSE "Reject"
                   /\ IsSome(user'[s]) /\ Unwrap(user'[s]).username = n
           /\ \A p \in Passwords :
                ( /\ auth_password(s, n, p)
                  /\ Directory[n].ssh_allow_password
                  /\ verify_password(p, Directory[n].password_hash) )
                => /\ last'.res = "Accept" /\ authed'[s]
                   /\ IsSome(user'[s]) /\ Unwrap(user'[s]).username = n ]_vars

\* a data, window-change, pty, shell or exec event of connection s for
\* channel id ch
EventFor(s, ch) ==
  \/ \E payload \in Payloads : data(s, ch, payload)
  \/ \E size \in Sizes, ok \in BOOLEAN : window_change_request(s, ch, size, ok)
  \/ \E pty_term \in Terms, size \in Sizes : pty_request(s, ch, pty_term, size)
  \/ shell_request(s, ch)
  \/ \E utf8 \in BOOLEAN, cmd \in Commands : exec_request(s, ch, utf8, cmd)

\* C37: once a channel has been removed by channel_close (its id was handed
\* out and the map no longer holds it), every later data, window-change,
\* pty, shell or exec event for that id makes no engine call, writes to no
\* input sink and leaves the map without an entry for the id.
C37_ClosedIsTerminal ==
  [][ \A s \in Sessions, ch \in ChannelIds :
        ( /\ ch < nextChan[s] /\ ~IsSome(channels[s][ch])
          /\ EventFor(s, ch) )
        => /\ execs' = execs /\ containers' = containers
           /\ delivered' = delivered
           /\ s \notin Attaching'
           /\ ~IsSome(channels'[s][ch]) ]_vars

\* a pty_request arrived for the id of a channel that was attached and then
\* closed: it returned Ok, the connection is up and the map holds no entry
C37_Witness ==
  /\ last.op = "pty_request" /\ last.res = "Ok" /\ alive[last.s]
  /\ last.ch < nextChan[last.s] /\ ~IsSome(channels[last.s][last.ch])
  /\ \E id \in ExecIds :
       /\ execs[id].session = last.s /\ execs[id].ch = last.ch
       /\ execs[id].detached

\* C38: once logout(token) has run, or once a verify has found the session
\* idle for more than 7 days, every verify(token) called afterwards returns
\* no session and leaves the row as it is; and a verify that returns the
\* session sets last_active to the time it read and changes nothing else of
\* the row and no other row.
C38_LogoutAndTimeoutAreFinal ==
  [][ /\ \A r \in WebRequests, token \in WebTokens :
           ( /\ verify_select(r, token)
             /\ IsSome(web_sessions[token])
             /\ Unwrap(web_sessions[token]).logged_out \/ token \in lapsed )
           => /\ web_last' = WebDone("verify", token, "None")
              /\ ~IsSome(verifying'[r])
              /\ web_sessions' = web_sessions
      /\ \A r \in WebRequests :
           verify_update(r)
           => LET v == Unwrap(verifying[r]) IN
              web_sessions' = [web_sessions EXCEPT ![v.token] =
                                 Some([Unwrap(@) EXCEPT !.last_active = v.now])]
    ]_vars

\* a socket between its subscription and its end
Live(k) == sockets[k].st = "subscribed"

\* C39: while a socket of a username is live, the username is a member of
\* the room "general", and every message sent to that room is handed to the
\* socket, whatever other sockets of the same username connect or disconnect.
C39_LiveSocketKeepsRoom ==
  [][ /\ \A k \in Sockets :
           Live(k)' => sockets'[k].username \in rooms'["general"].connected_users
      /\ \A j \in Sockets, message \in ChatTexts \ { "/help" } :
           chat_message(j, "general", message)
           => \A k \in Sockets :
                Live(k)
                => sockets'[k].inbox =
                     Append(sockets[k].inbox,
                            << sockets[j].username, "general", message >>) ]_vars

Spec == Init /\ [][Next]_vars
====
